---- MODULE Spec2Model ----
(***************************************************************************)
(* Model of .devcontainer/commands/initialize.py: the host-side            *)
(* initializer that validates the host, validates and scaffolds the YAML   *)
(* configuration files, merges the package configuration and writes the    *)
(* .env file.                                                              *)
(*                                                                         *)
(* YAML values are tagged records; a Python call that can raise returns a  *)
(* record whose field says whether it raised.  A file is represented by    *)
(* what yaml.safe_load makes of its text: missing, a syntax error, or the  *)
(* loaded value.                                                           *)
(***************************************************************************)
EXTENDS Integers, Sequences, FiniteSets, TLC

VARIABLES
    fs,        \* path -> file (the docker directory and the two home files)
    dirOk,     \* docker_dir.is_dir()
    suffix,    \* args.suffix
    environ,   \* os.environ: variable name -> value
    host,      \* what the OS answers: SystemInfo fields, platform, ids, home
    pc,        \* position in main(), or in the function under call
    out,       \* the lines printed so far by log / warn / error
    exit,      \* the process's exit status, "none" while it runs
    raised,    \* TRUE when the run ended by an uncaught exception
    hostOk,    \* what validate_host() returned ("none" before the call)
    calls,     \* the functions main() has invoked in this run
    runs,      \* how many times the script has been started
    writes,    \* path -> number of times a create_*_custom wrote it
    fs0,       \* the file system as it was when the first run started
    arg,       \* the document handed to a validator called on its own
    ret        \* what the function called on its own returned

vars == <<fs, dirOk, suffix, environ, host, pc, out, exit, raised, hostOk,
          calls, runs, writes, fs0, arg, ret>>

----------------------------------------------------------------------------
(* YAML values as Python objects *)

Null == [k |-> "null"]
Num(n) == [k |-> "int", v |-> n]
Str(s) == [k |-> "str", v |-> s]
List(q) == [k |-> "list", v |-> q]
Map(m) == [k |-> "map", v |-> m]

EmptyMap == [key \in {} |-> Null]

\* str(x) as an f-string formats it
PyFormat(x) ==
    CASE x.k = "null" -> "None"
      [] x.k = "int" -> ToString(x.v)
      [] x.k = "str" -> x.v
      [] OTHER -> "<object>"

\* bool(x)
PyTruthy(x) ==
    CASE x.k = "null" -> FALSE
      [] x.k = "int" -> x.v # 0
      [] x.k = "str" -> x.v # ""
      [] x.k = "list" -> x.v # <<>>
      [] x.k = "map" -> DOMAIN x.v # {}

\* the text before and after a needle that the substring search tries
Affixes == {"", "my-", "-svc"}

\* key in x: a dict looks at its keys, a list at its items, a str searches
\* for the substring, None and numbers raise TypeError
PyIn(key, x) ==
    CASE x.k = "map" -> [raised |-> FALSE, val |-> key \in DOMAIN x.v]
      [] x.k = "list" ->
           [raised |-> FALSE, val |-> \E i \in 1..Len(x.v) : x.v[i] = Str(key)]
      [] x.k = "str" ->
           [raised |-> FALSE,
            val |-> \E pre \in Affixes, post \in Affixes :
                        x.v = pre \o key \o post]
      [] OTHER -> [raised |-> TRUE, val |-> FALSE]

\* x[key] for a str key: only a dict answers, with KeyError when absent
PyGetItem(x, key) ==
    IF x.k = "map" /\ key \in DOMAIN x.v
    THEN [raised |-> FALSE, val |-> x.v[key]]
    ELSE [raised |-> TRUE, val |-> Null]

\* x.get(key, dflt): AttributeError unless x is a dict
PyGet(x, key, dflt) ==
    IF x.k = "map"
    THEN [raised |-> FALSE,
          val |-> IF key \in DOMAIN x.v THEN x.v[key] ELSE dflt]
    ELSE [raised |-> TRUE, val |-> Null]

\* x.setdefault(key, dflt): the dict after the call and the value returned
PySetDefault(x, key, dflt) ==
    IF x.k = "map"
    THEN IF key \in DOMAIN x.v
         THEN [raised |-> FALSE, obj |-> x, val |-> x.v[key]]
         ELSE [raised |-> FALSE, obj |-> Map((key :> dflt) @@ x.v), val |-> dflt]
    ELSE [raised |-> TRUE, obj |-> x, val |-> Null]

\* x = y where x.extend(y) was meant: the custom list replaces the default's
PyExtend_replaces(x, y) ==
    IF x.k = "list" /\ y.k = "list"
    THEN [raised |-> FALSE, val |-> y]
    ELSE [raised |-> TRUE, val |-> x]

\* x.extend(y): AttributeError unless x is a list, TypeError when y is None
\* or a number; a list y is appended item by item.  (A str or dict y, which
\* Python would iterate, is not among the values the merged fields take here.)
PyExtend(x, y) ==
    IF x.k = "list" /\ y.k = "list"
    THEN [raised |-> FALSE, val |-> List(x.v \o y.v)]
    ELSE [raised |-> TRUE, val |-> x]

----------------------------------------------------------------------------
(* Files *)

Missing == [st |-> "missing", doc |-> Null]
BadSyntax == [st |-> "bad", doc |-> Null]
Doc(d) == [st |-> "doc", doc |-> d]

\* path.exists()
Exists(f) == f.st # "missing"

\* with path.open() as f: yaml.safe_load(f)
safe_load(f) ==
    CASE f.st = "missing" -> [raised |-> TRUE, exc |-> "FileNotFoundError", val |-> Null]
      [] f.st = "bad" -> [raised |-> TRUE, exc |-> "YAMLError", val |-> Null]
      [] OTHER -> [raised |-> FALSE, exc |-> "", val |-> f.doc]

\* yaml.dump(data, f): the file then loads as data
dump(data) == Doc(data)

----------------------------------------------------------------------------
(* Printing *)

\* a printed line: its colour and prefix (lvl), and its text, which for a
\* message about a file starts with the file's name
Line(lvl, file, msg) ==
    [lvl |-> lvl, file |-> file, msg |-> IF file = "" THEN msg ELSE file \o ": " \o msg]

log(msg) == Line("[..]", "", msg)
ok(msg) == Line("[OK]", "", msg)
warn(msg) == Line("WARNING", "", msg)
error(msg) == Line("ERROR", "", msg)
warn_file(file, msg) == Line("WARNING", file, msg)
error_file(file, msg) == Line("ERROR", file, msg)
ok_file(file, msg) == Line("[OK]", file, msg)

\* every mapping key the documents use, in sorted() order
KeyOrder ==
    <<"base", "cap_add", "devcontainer", "devenv", "devices", "environment",
      "extra", "extra_hosts", "foo", "image_name", "image_tag", "packages",
      "ports", "privileged", "python_tools", "services", "volumes">>

RECURSIVE JoinFrom(_, _, _)
JoinFrom(S, i, acc) ==
    IF i > Len(KeyOrder) THEN acc
    ELSE IF KeyOrder[i] \in S
         THEN JoinFrom(S, i + 1,
                       IF acc = "" THEN KeyOrder[i] ELSE acc \o ", " \o KeyOrder[i])
         ELSE JoinFrom(S, i + 1, acc)

\* ', '.join(sorted(S))
JoinSorted(S) == JoinFrom(S, 1, "")

----------------------------------------------------------------------------
(* Validators: res is "pass" (True), "fail" (False) or "raise" *)

VPass(o) == [res |-> "pass", out |-> o]
VFail(o) == [res |-> "fail", out |-> o]
VRaise(o) == [res |-> "raise", out |-> o]

validate_compose(data, filename) ==
    LET missing == VFail(<<error_file(filename, "Missing services.devcontainer")>>)
    IN  IF "services" \notin DOMAIN data.v THEN missing
        ELSE LET has == PyIn("devcontainer", data.v["services"])
             IN  IF has.raised THEN VRaise(<<>>)
                 ELSE IF ~has.val THEN missing
                 ELSE VPass(<<>>)

ComposeAllowed ==
    {"environment", "volumes", "devices", "ports", "cap_add", "extra_hosts"}

validate_compose_custom(data, filename) ==
    LET base == validate_compose(data, filename)
    IN  IF base.res # "pass" THEN base
        ELSE LET dev == PyGetItem(data.v["services"], "devcontainer")
             IN  IF dev.raised \/ dev.val.k # "map" THEN VRaise(<<>>)
                 ELSE LET unknown == DOMAIN dev.val.v \ ComposeAllowed
                      IN  IF unknown # {}
                          THEN VPass(<<warn_file(filename, "Unknown keys: "
                                                 \o JoinSorted(unknown))>>)
                          ELSE VPass(<<>>)

RECURSIVE CheckFields(_, _, _)
CheckFields(data, filename, fields) ==
    IF fields = <<>> THEN VPass(<<>>)
    ELSE LET field == Head(fields)
         IN  IF field \notin DOMAIN data.v \/ data.v[field].k # "str"
             THEN VFail(<<error_file(filename, "Missing or invalid '" \o field \o "'")>>)
             ELSE CheckFields(data, filename, Tail(fields))

validate_packages(data, filename) ==
    LET scal == CheckFields(data, filename, <<"image_name", "image_tag">>)
        bad == VFail(<<error_file(filename, "Missing or invalid 'base.packages'")>>)
    IN  IF scal.res # "pass" THEN scal
        ELSE IF "base" \notin DOMAIN data.v THEN bad
        ELSE LET pk == PyGet(data.v["base"], "packages", Null)
             IN  IF pk.raised THEN VRaise(<<>>)
                 ELSE IF pk.val.k # "list" THEN bad
                 ELSE VPass(<<>>)

\* unknown sections treated as an error instead of a warning
validate_packages_custom_strict(data, filename) ==
    LET unknown == DOMAIN data.v \ {"base", "devenv"}
    IN  IF unknown # {}
        THEN VFail(<<error_file(filename, "Unknown sections: " \o JoinSorted(unknown))>>)
        ELSE VPass(<<>>)

PackagesAllowed == {"base", "devenv"}

validate_packages_custom(data, filename) ==
    LET unknown == DOMAIN data.v \ PackagesAllowed
    IN  IF unknown # {}
        THEN VPass(<<warn_file(filename, "Unknown sections: " \o JoinSorted(unknown))>>)
        ELSE VPass(<<>>)

\* the validator main() passes for each file
Validator(which, data, filename) ==
    CASE which = "compose" -> validate_compose(data, filename)
      [] which = "compose_custom" -> validate_compose_custom(data, filename)
      [] which = "packages" -> validate_packages(data, filename)
      [] which = "packages_custom" -> validate_packages_custom(data, filename)

validate_yaml(f, name, which) ==
    LET start == <<log("Validating " \o name \o "...")>>
        loaded == safe_load(f)
    IN  IF ~Exists(f) THEN VFail(start \o <<error("File not found: " \o name)>>)
        ELSE IF loaded.raised
             THEN VFail(start \o <<error_file(name, "YAML error")>>)
        ELSE IF loaded.val.k # "map"
             THEN VFail(start \o <<error_file(name, "Invalid YAML (expected dict)")>>)
        ELSE LET v == Validator(which, loaded.val, name)
             IN  IF v.res = "pass"
                 THEN VPass(start \o v.out \o <<ok_file(name, "Valid")>>)
                 ELSE [res |-> v.res, out |-> start \o v.out]

----------------------------------------------------------------------------
(* Paths *)

Path(drive, parts) == [drive |-> drive, parts |-> parts]

RECURSIVE JoinParts(_)
JoinParts(parts) ==
    IF parts = <<>> THEN ""
    ELSE IF Len(parts) = 1 THEN parts[1]
    ELSE parts[1] \o "/" \o JoinParts(Tail(parts))

\* Path.as_posix(): the drive, then the parts joined by forward slashes
as_posix(p) == p.drive \o "/" \o JoinParts(p.parts)

----------------------------------------------------------------------------
(* Host validation *)

LowDiskGb == 10
LowMemGb == 2

get_uid_gid(h) ==
    IF h.platform = "Windows" THEN <<1000, 1000>> ELSE <<h.uid, h.gid>>

PtraceLevel(n) ==
    CASE n = 0 -> "unrestricted"
      [] n = 1 -> "restricted"
      [] n = 2 -> "admin-only"
      [] n = 3 -> "disabled"
      [] OTHER -> "unknown"

\* validate_host(): ok is the value returned, out the lines printed
validate_host(info) ==
    LET pmsg == "ptrace_scope: " \o PyFormat(info.ptrace_scope) \o " ("
                \o PtraceLevel(info.ptrace_scope.v) \o ")"
        ptrace ==
            IF info.ptrace_scope.k = "null" THEN [failed |-> FALSE, out |-> <<>>]
            ELSE IF info.ptrace_scope.v = 0 THEN [failed |-> FALSE, out |-> <<ok(pmsg)>>]
            ELSE IF info.ptrace_scope.v = 3 THEN [failed |-> TRUE, out |-> <<error(pmsg)>>]
            ELSE [failed |-> FALSE, out |-> <<warn(pmsg)>>]
        docker ==
            IF ~info.docker_available
            THEN [failed |-> TRUE, out |-> <<error("Docker not found")>>]
            ELSE IF ~info.docker_running
            THEN [failed |-> TRUE, out |-> <<error("Docker daemon not running")>>]
            ELSE [failed |-> FALSE,
                  out |-> <<ok("Docker: " \o (IF PyTruthy(info.docker_version)
                                              THEN info.docker_version.v
                                              ELSE "available"))>>]
        disk ==
            IF info.disk_available_gb.k = "null" THEN <<>>
            ELSE IF info.disk_available_gb.v < LowDiskGb
            THEN <<warn("Disk: " \o PyFormat(info.disk_available_gb) \o "GB available (low)")>>
            ELSE <<ok("Disk: " \o PyFormat(info.disk_available_gb) \o "GB available")>>
        mem ==
            IF info.memory_available_gb < LowMemGb
            THEN <<warn("Memory: " \o ToString(info.memory_available_gb)
                        \o "GB available (low)")>>
            ELSE <<ok("Memory: " \o ToString(info.memory_available_gb) \o "/"
                      \o ToString(info.memory_total_gb) \o "GB")>>
        git ==
            IF info.git_repo_root.k # "null"
            THEN <<ok("Git: " \o as_posix(info.git_repo_root.v))>>
            ELSE <<warn("Git repository not found")>>
    IN  [ok |-> ~(ptrace.failed \/ docker.failed),
         out |-> <<log("Validating host system...")>> \o ptrace.out \o docker.out
                 \o disk \o mem \o git]

----------------------------------------------------------------------------
(* Scaffold writers *)

ComposeCustomScaffold ==
    Doc(Map([services |->
        Map([devcontainer |->
            Map([environment |-> List(<<>>), volumes |-> List(<<>>),
                 devices |-> List(<<>>)])])]))

PackagesCustomScaffold ==
    Doc(Map([base |-> Map([packages |-> List(<<>>)]),
             devenv |-> Map([packages |-> List(<<>>)])]))

\* create_compose_custom / create_packages_custom: path.write_text(content)
create_compose_custom(files, path) ==
    [fs |-> [files EXCEPT ![path] = ComposeCustomScaffold],
     out |-> <<log("Creating " \o path \o "..."), ok("Created " \o path)>>]

create_packages_custom(files, path) ==
    [fs |-> [files EXCEPT ![path] = PackagesCustomScaffold],
     out |-> <<log("Creating " \o path \o "..."), ok("Created " \o path)>>]

----------------------------------------------------------------------------
(* Merging the package configuration *)

\* the four list fields the merge extends, in the order the code visits them
MergePaths ==
    <<<<"base", "packages">>, <<"base", "python_tools">>,
      <<"devenv", "packages">>, <<"devenv", "python_tools">>>>

\* the section rebuilt from the merged field alone, its other fields lost
MergeField_dropsSiblings(merged, custom, section, field) ==
    LET insec == PyIn(section, custom)
        sec == PyGetItem(custom, section)
        infld == PyIn(field, sec.val)
        sd1 == PySetDefault(merged, section, Map(EmptyMap))
        sd2 == PySetDefault(sd1.val, field, List(<<>>))
        src == PyGetItem(sec.val, field)
        ext == PyExtend(sd2.val, src.val)
        fail == [raised |-> TRUE, val |-> merged]
    IN  IF insec.raised THEN fail
        ELSE IF ~insec.val THEN [raised |-> FALSE, val |-> merged]
        ELSE IF sec.raised \/ infld.raised THEN fail
        ELSE IF ~infld.val THEN [raised |-> FALSE, val |-> merged]
        ELSE IF sd1.raised \/ sd2.raised \/ src.raised \/ ext.raised THEN fail
        ELSE [raised |-> FALSE,
              val |-> Map([sd1.obj.v EXCEPT ![section] = Map(field :> ext.val)])]

\* one "if field in custom[section]: setdefault ...; extend ..." of the merge
MergeField(merged, custom, section, field) ==
    LET insec == PyIn(section, custom)
        sec == PyGetItem(custom, section)
        infld == PyIn(field, sec.val)
        sd1 == PySetDefault(merged, section, Map(EmptyMap))
        sd2 == PySetDefault(sd1.val, field, List(<<>>))
        src == PyGetItem(sec.val, field)
        ext == PyExtend(sd2.val, src.val)
        fail == [raised |-> TRUE, val |-> merged]
    IN  IF insec.raised THEN fail
        ELSE IF ~insec.val THEN [raised |-> FALSE, val |-> merged]
        ELSE IF sec.raised \/ infld.raised THEN fail
        ELSE IF ~infld.val THEN [raised |-> FALSE, val |-> merged]
        ELSE IF sd1.raised \/ sd2.raised \/ src.raised \/ ext.raised THEN fail
        ELSE [raised |-> FALSE,
              val |-> Map([sd1.obj.v EXCEPT
                             ![section] = Map([sd2.obj.v EXCEPT ![field] = ext.val])])]

RECURSIVE MergeAll(_, _, _)
MergeAll(merged, custom, i) ==
    IF i > Len(MergePaths) THEN [raised |-> FALSE, val |-> merged]
    ELSE LET r == MergeField(merged, custom, MergePaths[i][1], MergePaths[i][2])
         IN  IF r.raised THEN r ELSE MergeAll(r.val, custom, i + 1)

\* merge_packages(default_path, custom_path, output_path)
merge_packages(files, default_path, custom_path, output_path) ==
    LET start == <<log("Merging package configurations...")>>
        dflt == safe_load(files[default_path])
        cust == safe_load(files[custom_path])
        custom == IF PyTruthy(cust.val) THEN cust.val ELSE Map(EmptyMap)
        merged ==
            IF Exists(files[custom_path])
            THEN MergeAll(dflt.val, custom, 1)
            ELSE [raised |-> FALSE, val |-> dflt.val]
    IN  IF dflt.raised \/ (Exists(files[custom_path]) /\ cust.raised) \/ merged.raised
        THEN [raised |-> TRUE, fs |-> files, out |-> start]
        ELSE [raised |-> FALSE,
              fs |-> [files EXCEPT ![output_path] = dump(merged.val)],
              out |-> start \o <<ok("Created " \o output_path)>>]

----------------------------------------------------------------------------
(* The environment file *)

\* the nested loops "for var in (...): for v in (var, var.upper())", flattened
ProxyVars ==
    <<"http_proxy", "HTTP_PROXY", "https_proxy", "HTTPS_PROXY",
      "all_proxy", "ALL_PROXY", "no_proxy", "NO_PROXY">>

\* os.environ.get(name, dflt)
EnvGet(env, name, dflt) == IF name \in DOMAIN env THEN env[name] ELSE dflt

RECURSIVE ProxyLines(_, _)
ProxyLines(env, i) ==
    IF i > Len(ProxyVars) THEN <<>>
    ELSE (IF EnvGet(env, ProxyVars[i], "") # ""
          THEN <<ProxyVars[i] \o "=" \o env[ProxyVars[i]]>>
          ELSE <<>>) \o ProxyLines(env, i + 1)

\* the hyphen inserted whether or not there is a suffix
SuffixPart_always(sfx) == "-" \o sfx

\* f"-{suffix}" if suffix else ""
SuffixPart(sfx) == IF sfx # "" THEN "-" \o sfx ELSE ""

\* both defaults taken as soon as one of the two fields is missing
ImageConfig_allOrNothing(f) ==
    LET pkg == safe_load(f)
    IN  IF /\ ~pkg.raised
           /\ pkg.val.k = "map"
           /\ {"image_name", "image_tag"} \subseteq DOMAIN pkg.val.v
        THEN [image_name |-> pkg.val.v["image_name"], image_tag |-> pkg.val.v["image_tag"]]
        ELSE [image_name |-> Str("ubuntu"), image_tag |-> Str("24.04")]

\* the image name and tag read from packages.yml, or the fixed defaults
\* when anything in the try block raises
ImageConfig(f) ==
    LET pkg == safe_load(f)
        name == PyGet(pkg.val, "image_name", Str("ubuntu"))
        tag == PyGet(pkg.val, "image_tag", Str("24.04"))
    IN  IF pkg.raised \/ name.raised \/ tag.raised
        THEN [image_name |-> Str("ubuntu"), image_tag |-> Str("24.04")]
        ELSE [image_name |-> name.val, image_tag |-> tag.val]

\* path.write_text("\n".join(lines) + "\n"): the file holds these lines
Text(lines) == [st |-> "text", doc |-> List([i \in 1..Len(lines) |-> Str(lines[i])])]

\* the lines generate_env builds
EnvLines(files, packages_path, sfx, env, h) ==
    LET proxy == ProxyLines(env, 1)
        username == EnvGet(env, "USER", EnvGet(env, "USERNAME", "developer"))
        ids == get_uid_gid(h)
        img == ImageConfig(files[packages_path])
        suffix_part == SuffixPart(sfx)
    IN  proxy \o (IF proxy # <<>> THEN <<"">> ELSE <<>>)
        \o <<"SHELL=" \o EnvGet(env, "SHELL", "/bin/bash"),
             "USER=" \o username,
             "USER_UID=" \o ToString(ids[1]),
             "USER_GID=" \o ToString(ids[2])>>
        \o <<"",
             "IMAGE_NAME=" \o PyFormat(img.image_name),
             "IMAGE_TAG=" \o PyFormat(img.image_tag),
             "",
             "BUILD_TARGET=devenv">>
        \o <<"",
             "SERVICE_PREPARE=" \o username \o "-devcontainer-prepare" \o suffix_part,
             "SERVICE_MAIN=" \o username \o "-devcontainer" \o suffix_part,
             "",
             "VOLUME_LOCAL_SHARE=" \o username \o "-devcontainer-local-share" \o suffix_part,
             "VOLUME_CONFIG=" \o username \o "-devcontainer-config" \o suffix_part,
             "VOLUME_CACHE=" \o username \o "-devcontainer-cache" \o suffix_part,
             "VOLUME_VSCODE_EXT=" \o username \o "-vscode-extensions" \o suffix_part,
             "VOLUME_VSCODE_EXT_INSIDERS=" \o username \o "-vscode-extensions-insiders"
                 \o suffix_part,
             "",
             "HOME=" \o as_posix(h.home)>>
        \o (IF h.git_repo_root.k # "null"
            THEN <<"GIT_REPO_ROOT=" \o as_posix(h.git_repo_root.v)>>
            ELSE <<>>)

\* generate_env(env_path, packages_path, suffix)
generate_env(files, env_path, packages_path, sfx, env, h) ==
    LET ids == get_uid_gid(h)
    IN  [fs |-> [files EXCEPT
                   ![env_path] = Text(EnvLines(files, packages_path, sfx, env, h))],
         out |-> <<log("Generating .env..."),
                   ok("Generated .env (UID=" \o ToString(ids[1]) \o ", GID="
                      \o ToString(ids[2]) \o ")")>>]

----------------------------------------------------------------------------
(* main(): one action per statement group *)

COMPOSE_DEFAULT == "docker-compose.default.yml"
COMPOSE_CUSTOM == "docker-compose.custom.yml"
PACKAGES_DEFAULT == "packages.default.yml"
PACKAGES_CUSTOM == "packages.custom.yml"
PACKAGES_MERGED == "packages.yml"
ENV_FILE == ".env"
NETRC == "~/.netrc"
GITCONFIG == "~/.gitconfig"

Paths ==
    {COMPOSE_DEFAULT, COMPOSE_CUSTOM, PACKAGES_DEFAULT, PACKAGES_CUSTOM,
     PACKAGES_MERGED, ENV_FILE, NETRC, GITCONFIG}

\* inputs and bookkeeping no statement of main() assigns
Frame == UNCHANGED <<dirOk, suffix, environ, host, runs, fs0, arg, ret>>

\* "return 1", or an exception nothing catches (the interpreter exits with 1)
Stop(lines, byException) ==
    /\ out' = out \o lines
    /\ exit' = 1
    /\ raised' = byException
    /\ pc' = "done"

\* lines 364-372: parse the arguments, look for the docker directory
Start ==
    /\ pc = "start"
    /\ IF ~dirOk
       THEN Stop(<<error("Directory not found: docker")>>, FALSE)
       ELSE /\ pc' = "host"
            /\ UNCHANGED <<out, exit, raised>>
    /\ UNCHANGED <<fs, hostOk, calls, writes>>
    /\ Frame

\* line 374: validate_host(), its value dropped
HostStep ==
    /\ pc = "host"
    /\ LET r == validate_host(host)
       IN  /\ hostOk' = (IF r.ok THEN "true" ELSE "false")
           /\ out' = out \o r.out
    /\ calls' = calls \cup {"validate_host"}
    /\ pc' = "compose"
    /\ UNCHANGED <<fs, exit, raised, writes>>
    /\ Frame

\* "if not validate_yaml(path, validator): return 1" for a file at position at
ValidateOrStop(at, path, which, next) ==
    /\ pc = at
    /\ LET r == validate_yaml(fs[path], path, which)
       IN  IF r.res = "pass"
           THEN /\ out' = out \o r.out
                /\ pc' = next
                /\ UNCHANGED <<exit, raised>>
           ELSE Stop(r.out, r.res = "raise")
    /\ calls' = calls \cup {"validate_yaml:" \o path}
    /\ UNCHANGED <<fs, hostOk, writes>>
    /\ Frame

\* lines 377-379
ValidateComposeDefault ==
    ValidateOrStop("compose", COMPOSE_DEFAULT, "compose", "compose_custom")

\* the placeholder written without looking whether the file exists
ComposeCustomStep_always ==
    /\ pc = "compose_custom"
    /\ LET r == create_compose_custom(fs, COMPOSE_CUSTOM)
       IN  /\ fs' = r.fs
           /\ out' = out \o r.out
    /\ writes' = [writes EXCEPT ![COMPOSE_CUSTOM] = @ + 1]
    /\ calls' = calls \cup {"create_compose_custom"}
    /\ pc' = "packages"
    /\ UNCHANGED <<exit, raised, hostOk>>
    /\ Frame

\* lines 381-386
ComposeCustomStep ==
    IF Exists(fs[COMPOSE_CUSTOM])
    THEN ValidateOrStop("compose_custom", COMPOSE_CUSTOM, "compose_custom", "packages")
    ELSE /\ pc = "compose_custom"
         /\ LET r == create_compose_custom(fs, COMPOSE_CUSTOM)
            IN  /\ fs' = r.fs
                /\ out' = out \o r.out
         /\ writes' = [writes EXCEPT ![COMPOSE_CUSTOM] = @ + 1]
         /\ calls' = calls \cup {"create_compose_custom"}
         /\ pc' = "packages"
         /\ UNCHANGED <<exit, raised, hostOk>>
         /\ Frame

\* validate_yaml's value dropped, as validate_host's is
ValidatePackagesDefault_unchecked ==
    /\ pc = "packages"
    /\ out' = out \o validate_yaml(fs[PACKAGES_DEFAULT], PACKAGES_DEFAULT, "packages").out
    /\ pc' = "packages_custom"
    /\ calls' = calls \cup {"validate_yaml:" \o PACKAGES_DEFAULT}
    /\ UNCHANGED <<fs, exit, raised, hostOk, writes>>
    /\ Frame

\* lines 389-392
ValidatePackagesDefault ==
    ValidateOrStop("packages", PACKAGES_DEFAULT, "packages", "packages_custom")

\* lines 394-399
PackagesCustomStep ==
    IF Exists(fs[PACKAGES_CUSTOM])
    THEN ValidateOrStop("packages_custom", PACKAGES_CUSTOM, "packages_custom", "merge")
    ELSE /\ pc = "packages_custom"
         /\ LET r == create_packages_custom(fs, PACKAGES_CUSTOM)
            IN  /\ fs' = r.fs
                /\ out' = out \o r.out
         /\ writes' = [writes EXCEPT ![PACKAGES_CUSTOM] = @ + 1]
         /\ calls' = calls \cup {"create_packages_custom"}
         /\ pc' = "merge"
         /\ UNCHANGED <<exit, raised, hostOk>>
         /\ Frame

\* lines 401-403
MergeStep ==
    /\ pc = "merge"
    /\ LET r == merge_packages(fs, PACKAGES_DEFAULT, PACKAGES_CUSTOM, PACKAGES_MERGED)
       IN  IF r.raised
           THEN /\ Stop(r.out, TRUE)
                /\ UNCHANGED fs
           ELSE /\ fs' = r.fs
                /\ out' = out \o r.out
                /\ pc' = "touch"
                /\ UNCHANGED <<exit, raised>>
    /\ calls' = calls \cup {"merge_packages"}
    /\ UNCHANGED <<hostOk, writes>>
    /\ Frame

\* Path.touch(exist_ok=True): an absent file becomes an empty one
Touch(f) == IF Exists(f) THEN f ELSE Doc(Null)

\* lines 405-407
TouchStep ==
    /\ pc = "touch"
    /\ fs' = [fs EXCEPT ![NETRC] = Touch(@), ![GITCONFIG] = Touch(@)]
    /\ pc' = "env"
    /\ UNCHANGED <<out, exit, raised, hostOk, calls, writes>>
    /\ Frame

\* lines 409-416: unlink the old .env, generate the new one, return 0
EnvStep ==
    /\ pc = "env"
    /\ LET unlinked == [fs EXCEPT ![ENV_FILE] = Missing]
           r == generate_env(unlinked, ENV_FILE, PACKAGES_MERGED, suffix, environ, host)
       IN  /\ fs' = r.fs
           /\ out' = out \o <<log("Initializing environment...")>> \o r.out
                     \o <<ok("Environment initialized!")>>
    /\ calls' = calls \cup {"generate_env"}
    /\ exit' = 0
    /\ pc' = "done"
    /\ UNCHANGED <<raised, hostOk, writes>>
    /\ Frame

MaxRuns == 2

\* lines 419-420: the script is started again on the files the last run left
Rerun ==
    /\ pc = "done"
    /\ runs < MaxRuns
    /\ runs' = runs + 1
    /\ pc' = "start"
    /\ out' = <<>>
    /\ exit' = -1
    /\ raised' = FALSE
    /\ hostOk' = "none"
    /\ calls' = {}
    /\ UNCHANGED <<fs, dirOk, suffix, environ, host, writes, fs0, arg, ret>>

----------------------------------------------------------------------------
(* The inputs a run is started on *)

MaxLen == 2

PkgNames == {"a", "b"}

\* the package lists of at most MaxLen names
PkgLists ==
    {List(q) : q \in UNION {[1..n -> {Str(x) : x \in PkgNames}] : n \in 0..MaxLen}}

HomeLinux == Path("", <<"home", "alice">>)
HomeWindows == Path("C:", <<"Users", "alice">>)

HostGood ==
    [ptrace_scope |-> Num(0), disk_available_gb |-> Num(50), memory_total_gb |-> 16,
     memory_available_gb |-> 8, docker_available |-> TRUE, docker_running |-> TRUE,
     docker_version |-> Str("Docker version 27.0"),
     git_repo_root |-> [k |-> "path", v |-> Path("", <<"work", "repo">>)],
     platform |-> "Linux", uid |-> 1001, gid |-> 1002, home |-> HomeLinux]

\* docker is not on the PATH
HostNoDocker ==
    [HostGood EXCEPT !.docker_available = FALSE, !.docker_running = FALSE,
                     !.docker_version = Null]

\* docker --version answers, docker info fails
HostDockerStopped == [HostGood EXCEPT !.docker_running = FALSE]

\* nothing fatal: restricted ptrace, little disk and memory, no git repository
HostWarnings ==
    [HostGood EXCEPT !.ptrace_scope = Num(1), !.disk_available_gb = Num(5),
                     !.memory_available_gb = 1, !.git_repo_root = Null]

\* a Windows host: no ptrace file, no /var, ids replaced by 1000
HostWindows ==
    [HostGood EXCEPT !.ptrace_scope = Null, !.disk_available_gb = Null,
                     !.platform = "Windows", !.home = HomeWindows]

\* ptrace disabled altogether
HostPtraceDisabled == [HostGood EXCEPT !.ptrace_scope = Num(3)]

Hosts == {HostGood, HostNoDocker, HostDockerStopped, HostWarnings, HostPtraceDisabled}

EnvAlice == [USER |-> "alice", SHELL |-> "/bin/zsh"]

DevOk == Map([environment |-> List(<<>>)])
DevUnknown == Map([environment |-> List(<<>>), privileged |-> Num(1), foo |-> Null])

ComposeDefaultFiles ==
    {Missing,
     Doc(Map([services |-> Map([devcontainer |-> DevUnknown])])),
     Doc(Map([version |-> Str("3")])),
     Doc(Map([services |-> Null])),
     Doc(Map([services |-> Map([devcontainer |-> Null])]))}

ComposeCustomFiles ==
    {Missing, BadSyntax, Doc(List(<<>>)),
     Doc(Map([services |-> Map([devcontainer |-> DevOk])])),
     Doc(Map([services |-> Map([devcontainer |-> DevUnknown])])),
     Doc(Map([services |-> Map(EmptyMap)])),
     Doc(Map([services |-> Map([devcontainer |-> Null])]))}

PkgFull ==
    Map([image_name |-> Str("ubuntu"), image_tag |-> Str("24.04"),
         base |-> Map([packages |-> List(<<Str("a"), Str("b")>>), extra |-> Str("keep")]),
         devenv |-> Map([packages |-> List(<<Str("c")>>)]),
         extra |-> List(<<Str("x")>>)])

PkgMinimal ==
    Map([image_name |-> Str("debian"), image_tag |-> Str("12"),
         base |-> Map([packages |-> List(<<>>)])])

PackagesDefaultFiles ==
    {Missing, Doc(PkgFull), Doc(PkgMinimal),
     Doc(Map([image_name |-> Str("ubuntu"),
              base |-> Map([packages |-> List(<<>>)])])),
     Doc(Map([image_name |-> Str("ubuntu"), image_tag |-> Str("24.04"), base |-> Null])),
     Doc(Map([image_name |-> Str("ubuntu"), image_tag |-> Str("24.04"),
              base |-> Map([packages |-> List(<<>>)]), devenv |-> Null]))}

PackagesCustomFiles ==
    {Missing, Doc(Null),
     Doc(Map([base |-> Map([packages |-> List(<<Str("a")>>),
                            python_tools |-> List(<<Str("t")>>)]),
              devenv |-> Map([packages |-> List(<<Str("d")>>)])])),
     Doc(Map([foo |-> Num(1), image_name |-> Str("alpine"), image_tag |-> Str("3"),
              base |-> Map([packages |-> List(<<Str("a")>>)]),
              devenv |-> Map(EmptyMap)])),
     Doc(Map([base |-> Null]))}

\* a file system with the four configuration files as given, nothing generated
Files(cd, cc, pd, pcu) ==
    [p \in Paths |->
        CASE p = COMPOSE_DEFAULT -> cd
          [] p = COMPOSE_CUSTOM -> cc
          [] p = PACKAGES_DEFAULT -> pd
          [] p = PACKAGES_CUSTOM -> pcu
          [] OTHER -> Missing]

\* what every specification starts from, apart from its inputs
Idle ==
    /\ out = <<>>
    /\ exit = -1
    /\ raised = FALSE
    /\ hostOk = "none"
    /\ calls = {}
    /\ runs = 1
    /\ writes = [p \in Paths |-> 0]
    /\ fs0 = fs
    /\ ret = Null

Init ==
    /\ \E cd \in ComposeDefaultFiles, cc \in ComposeCustomFiles,
          pd \in PackagesDefaultFiles, pcu \in PackagesCustomFiles :
            fs = Files(cd, cc, pd, pcu)
    /\ dirOk \in BOOLEAN
    /\ suffix \in {"", "dev"}
    /\ environ = EnvAlice
    /\ host \in Hosts
    /\ pc = "start"
    /\ arg = Null
    /\ Idle

Next ==
    \/ Start
    \/ HostStep
    \/ ValidateComposeDefault
    \/ ComposeCustomStep
    \/ ValidatePackagesDefault
    \/ PackagesCustomStep
    \/ MergeStep
    \/ TouchStep
    \/ EnvStep
    \/ Rerun

Spec == Init /\ [][Next]_vars

----------------------------------------------------------------------------
(* The validators called on their own, on any loaded top-level mapping *)

Absent == [k |-> "absent"]

\* the mapping {key: value}, or the empty one when the key is left out
Field(key, value) == IF value = Absent THEN EmptyMap ELSE (key :> value)

DevValues == {Null, Num(1), Str("x"), List(<<>>), Map(EmptyMap), DevOk, DevUnknown}

ServicesValues ==
    {Null, Num(1), Str("devcontainer"), Str("my-devcontainer-svc"), Str("web"),
     List(<<Str("devcontainer")>>), List(<<>>), Map(EmptyMap)}
    \cup {Map([devcontainer |-> d]) : d \in DevValues}

ComposeDocs == {Map(Field("services", s)) : s \in ServicesValues \cup {Absent}}

BaseValues ==
    {Null, Num(1), Str("packages"), List(<<Str("packages")>>), Map(EmptyMap),
     Map([packages |-> List(<<Str("a")>>)]), Map([packages |-> Null]),
     Map([packages |-> Str("a")])}

PackagesDocs ==
    {Map(Field("image_name", n) @@ Field("image_tag", t) @@ Field("base", b)
         @@ Field("foo", f)) :
        n \in {Absent, Str("ubuntu"), Num(1)},
        t \in {Absent, Str("24.04"), Null},
        b \in BaseValues \cup {Absent},
        f \in {Absent, Num(1)}}

ValidatorDocs == ComposeDocs \cup PackagesDocs

InitValidate ==
    /\ fs = Files(Missing, Missing, Missing, Missing)
    /\ dirOk = TRUE
    /\ suffix = ""
    /\ environ = EnvAlice
    /\ host = HostGood
    /\ pc = "call"
    /\ arg \in ValidatorDocs
    /\ Idle

CallValidator(which) ==
    /\ pc = "call"
    /\ ret' = Validator(which, arg, "f.yml")
    /\ out' = ret'.out
    /\ calls' = {which}
    /\ pc' = "returned"
    /\ UNCHANGED <<fs, dirOk, suffix, environ, host, exit, raised, hostOk, runs,
                   writes, fs0, arg>>

CallValidateCompose == CallValidator("compose")
CallValidateComposeCustom == CallValidator("compose_custom")
CallValidatePackages == CallValidator("packages")
CallValidatePackagesCustom == CallValidator("packages_custom")

NextValidate ==
    \/ CallValidateCompose
    \/ CallValidateComposeCustom
    \/ CallValidatePackages
    \/ CallValidatePackagesCustom

SpecValidate == InitValidate /\ [][NextValidate]_vars

----------------------------------------------------------------------------
(* merge_packages called on its own *)

\* defaults that pass validate_packages, with keys outside the merged paths
MergeDefaults ==
    {Map([image_name |-> Str("ubuntu"), image_tag |-> Str("24.04"),
          extra |-> List(<<Str("x")>>),
          base |-> Map([packages |-> p, extra |-> Str("keep")] @@ Field("python_tools", t))]
         @@ Field("devenv", d)) :
        p \in PkgLists,
        t \in {Absent, List(<<Str("t")>>)},
        d \in {Absent, Null, Map(EmptyMap),
               Map([packages |-> List(<<Str("c")>>), extra |-> Num(1)])}}

CustomBases ==
    {Absent, Null}
    \cup {Map(Field("packages", p) @@ Field("python_tools", t)) :
            p \in PkgLists \cup {Absent, Null},
            t \in {Absent, List(<<Str("t")>>)}}

CustomDevenvs ==
    {Absent, Map([packages |-> List(<<Str("a")>>)]),
     Map([python_tools |-> List(<<Str("t"), Str("t")>>)]),
     Map([packages |-> List(<<Str("c")>>), python_tools |-> List(<<>>)])}

\* what the custom file sets besides base and devenv
CustomOthers ==
    {EmptyMap,
     [image_name |-> Str("alpine"), image_tag |-> Str("3"), extra |-> Null,
      foo |-> Num(1)]}

MergeCustoms ==
    {Missing, BadSyntax, Doc(Null), Doc(List(<<Str("base")>>))}
    \cup {Doc(Map(Field("base", b) @@ Field("devenv", d) @@ o)) :
            b \in CustomBases, d \in CustomDevenvs, o \in CustomOthers}

InitMerge ==
    /\ \E d \in MergeDefaults, c \in MergeCustoms :
          fs = Files(Missing, Missing, Doc(d), c)
    /\ dirOk = TRUE
    /\ suffix = ""
    /\ environ = EnvAlice
    /\ host = HostGood
    /\ pc = "call"
    /\ arg = Null
    /\ Idle

CallMerge ==
    /\ pc = "call"
    /\ LET r == merge_packages(fs, PACKAGES_DEFAULT, PACKAGES_CUSTOM, PACKAGES_MERGED)
       IN  /\ fs' = r.fs
           /\ out' = r.out
           /\ raised' = r.raised
    /\ calls' = {"merge_packages"}
    /\ pc' = "returned"
    /\ UNCHANGED <<dirOk, suffix, environ, host, exit, hostOk, runs, writes, fs0,
                   arg, ret>>

NextMerge == CallMerge

SpecMerge == InitMerge /\ [][NextMerge]_vars

----------------------------------------------------------------------------
(* generate_env called on its own *)

\* packages.yml as generate_env may find it
MergedFiles ==
    {Missing, BadSyntax, Doc(Null), Doc(List(<<Str("image_name")>>)),
     Doc(Str("image_name"))}
    \cup {Doc(Map(Field("image_name", n) @@ Field("image_tag", t)
                  @@ [base |-> Map([packages |-> List(<<>>)])])) :
            n \in {Absent, Str("debian"), Null},
            t \in {Absent, Str("12"), Num(24)}}

Suffixes == {"", "dev", "a-b"}

\* the variable name set to the one value in S, or unset when S is empty
EnvVar(name, S) == [n \in {x \in {name} : S # {}} |-> CHOOSE v \in S : TRUE]

Environs ==
    {EnvVar("USER", u) @@ EnvVar("USERNAME", n) @@ EnvVar("http_proxy", p)
     @@ EnvVar("NO_PROXY", q) @@ EnvVar("SHELL", sh) :
        u \in {{}, {"alice"}, {"bob"}, {""}},
        n \in {{}, {"carol"}},
        p \in {{}, {""}, {"http://proxy:3128"}},
        q \in {{}, {"localhost"}},
        sh \in {{}, {"/bin/zsh"}}}

InitEnv ==
    /\ \E m \in MergedFiles, e \in {Missing, Text(<<"USER=old">>)} :
          fs = [Files(Missing, Missing, Missing, Missing) EXCEPT
                  ![PACKAGES_MERGED] = m, ![ENV_FILE] = e]
    /\ dirOk = TRUE
    /\ suffix \in Suffixes
    /\ environ \in Environs
    /\ host \in {HostGood, HostWarnings, HostWindows}
    /\ pc = "call"
    /\ arg = Null
    /\ Idle

CallGenerateEnv ==
    /\ pc = "call"
    /\ LET r == generate_env(fs, ENV_FILE, PACKAGES_MERGED, suffix, environ, host)
       IN  /\ fs' = r.fs
           /\ out' = r.out
    /\ calls' = {"generate_env"}
    /\ pc' = "returned"
    /\ UNCHANGED <<dirOk, suffix, environ, host, exit, raised, hostOk, runs, writes,
                   fs0, arg, ret>>

NextEnv == CallGenerateEnv

SpecEnv == InitEnv /\ [][NextEnv]_vars

----------------------------------------------------------------------------
(* Properties of main() *)

\* a required file that validate_yaml does not accept
RequiredBad ==
    \/ validate_yaml(fs[COMPOSE_DEFAULT], COMPOSE_DEFAULT, "compose").res # "pass"
    \/ validate_yaml(fs[PACKAGES_DEFAULT], PACKAGES_DEFAULT, "packages").res # "pass"

\* C1: when docker-compose.default.yml or packages.default.yml is missing or
\* fails its validation, the run ends with exit code 1, merge_packages and
\* generate_env are never invoked in it, and packages.yml and .env stay as
\* they were.
C1_RequiredFailureHalts ==
    RequiredBad =>
        /\ pc \notin {"merge", "touch", "env"}
        /\ "merge_packages" \notin calls
        /\ "generate_env" \notin calls
        /\ fs[PACKAGES_MERGED] = fs0[PACKAGES_MERGED]
        /\ fs[ENV_FILE] = fs0[ENV_FILE]
        /\ (pc = "done" => exit = 1)

\* a run that got past the compose file and stopped at a packages.default.yml
\* without image_tag
C1_Witness ==
    /\ pc = "done"
    /\ exit = 1
    /\ ~raised
    /\ fs[PACKAGES_DEFAULT].st = "doc"
    /\ "image_tag" \notin DOMAIN fs[PACKAGES_DEFAULT].doc.v
    /\ "validate_yaml:" \o PACKAGES_DEFAULT \in calls

\* C2: when Docker is unavailable or its daemon is not running the run ends
\* with a non-zero exit code and the env stage is never reached.
C2_DockerBlocks ==
    (~host.docker_available \/ ~host.docker_running) =>
        /\ "generate_env" \notin calls
        /\ (pc = "done" => exit # 0)

\* a custom file validate_yaml rejects: unparsable, not a mapping at the top
\* or, for the compose file, without services.devcontainer
Rejected(p, needsDevcontainer) ==
    LET f == fs[p]
    IN  /\ Exists(f)
        /\ \/ f.st = "bad"
           \/ f.doc.k # "map"
           \/ /\ needsDevcontainer
              /\ \/ "services" \notin DOMAIN f.doc.v
                 \/ /\ f.doc.v["services"].k = "map"
                    /\ "devcontainer" \notin DOMAIN f.doc.v["services"].v

\* a custom file of the expected structure, whatever keys it holds
WellFormedCompose(f) ==
    /\ f.st = "doc"
    /\ f.doc.k = "map"
    /\ "services" \in DOMAIN f.doc.v
    /\ f.doc.v["services"].k = "map"
    /\ "devcontainer" \in DOMAIN f.doc.v["services"].v
    /\ f.doc.v["services"].v["devcontainer"].k = "map"

WellFormedPackages(f) == f.st = "doc" /\ f.doc.k = "map"

UnknownComposeKeys(f) ==
    DOMAIN f.doc.v["services"].v["devcontainer"].v \ ComposeAllowed

UnknownPackagesKeys(f) == DOMAIN f.doc.v \ PackagesAllowed

Warned(p) == \E i \in 1..Len(out) : out[i].lvl = "WARNING" /\ out[i].file = p

ScaffoldOf(p) == IF p = COMPOSE_CUSTOM THEN ComposeCustomScaffold ELSE PackagesCustomScaffold

\* the positions of main() after the scaffold step of the file
PastScaffold(p) ==
    IF p = COMPOSE_CUSTOM
    THEN pc \in {"packages", "packages_custom", "merge", "touch", "env"}
    ELSE pc \in {"merge", "touch", "env"}

\* C6: over any sequence of runs a missing custom file is scaffolded exactly
\* once, by the first run that reaches its scaffold step, and is never
\* rewritten afterwards; a custom file that exists before the first run is
\* never written by the scaffold writer.
C6_ScaffoldOnce ==
    \A p \in {COMPOSE_CUSTOM, PACKAGES_CUSTOM} :
        /\ writes[p] <= 1
        /\ Exists(fs0[p]) => (writes[p] = 0 /\ fs[p] = fs0[p])
        /\ writes[p] = 1 => (~Exists(fs0[p]) /\ fs[p] = ScaffoldOf(p))
        /\ writes[p] = 0 => fs[p] = fs0[p]
        /\ (~Exists(fs0[p]) /\ PastScaffold(p)) => writes[p] = 1

\* a second run that came to its end over the two files the first run wrote
C6_Witness ==
    /\ runs = 2
    /\ pc = "done"
    /\ exit = 0
    /\ ~Exists(fs0[COMPOSE_CUSTOM])
    /\ ~Exists(fs0[PACKAGES_CUSTOM])
    /\ writes[COMPOSE_CUSTOM] = 1
    /\ writes[PACKAGES_CUSTOM] = 1

----------------------------------------------------------------------------
(* Properties of merge_packages *)

\* the document of a file, an empty mapping when there is none to read
DocOf(f) == IF f.st = "doc" /\ f.doc.k = "map" THEN f.doc ELSE Map(EmptyMap)

\* the sequence at section.field of a document, empty when the path is absent
SeqAt(d, section, field) ==
    IF /\ section \in DOMAIN d.v
       /\ d.v[section].k = "map"
       /\ field \in DOMAIN d.v[section].v
       /\ d.v[section].v[field].k = "list"
    THEN d.v[section].v[field].v
    ELSE <<>>

MergeReturned == pc = "returned" /\ ~raised

\* C4: for each of base.packages, base.python_tools, devenv.packages and
\* devenv.python_tools the merged sequence is the default's sequence followed
\* by the custom's sequence in its own order, duplicates kept; without a
\* custom file it is the default's sequence.
C4_MergeAppends ==
    MergeReturned =>
        \A i \in 1..Len(MergePaths) :
            SeqAt(DocOf(fs[PACKAGES_MERGED]), MergePaths[i][1], MergePaths[i][2])
              = SeqAt(DocOf(fs0[PACKAGES_DEFAULT]), MergePaths[i][1], MergePaths[i][2])
                \o SeqAt(DocOf(fs0[PACKAGES_CUSTOM]), MergePaths[i][1], MergePaths[i][2])

\* default base.packages [a, b] merged with custom base.packages [b, a]: the
\* result holds both names twice
C4_Witness ==
    /\ MergeReturned
    /\ SeqAt(DocOf(fs0[PACKAGES_DEFAULT]), "base", "packages") = <<Str("a"), Str("b")>>
    /\ SeqAt(DocOf(fs0[PACKAGES_CUSTOM]), "base", "packages") = <<Str("b"), Str("a")>>
    /\ SeqAt(DocOf(fs[PACKAGES_MERGED]), "base", "packages")
         = <<Str("a"), Str("b"), Str("b"), Str("a")>>

MergedFields == {"packages", "python_tools"}

\* C7: every top-level key of the default other than base and devenv, and
\* every field of base and devenv other than packages and python_tools, is in
\* the merged document with the default's value; nothing else is added, and
\* image_name and image_tag are the default's whatever the custom file sets.
C7_MergeFrame ==
    MergeReturned =>
        LET d == fs0[PACKAGES_DEFAULT].doc
            m == fs[PACKAGES_MERGED].doc
        IN  /\ m.k = "map"
            /\ DOMAIN d.v \subseteq DOMAIN m.v
            /\ DOMAIN m.v \subseteq DOMAIN d.v \cup PackagesAllowed
            /\ \A key \in DOMAIN d.v \ PackagesAllowed : m.v[key] = d.v[key]
            /\ m.v["image_name"] = d.v["image_name"]
            /\ m.v["image_tag"] = d.v["image_tag"]
            /\ \A sec \in DOMAIN d.v \cap PackagesAllowed :
                  IF d.v[sec].k = "map"
                  THEN /\ m.v[sec].k = "map"
                       /\ DOMAIN d.v[sec].v \subseteq DOMAIN m.v[sec].v
                       /\ DOMAIN m.v[sec].v \subseteq DOMAIN d.v[sec].v \cup MergedFields
                       /\ \A fld \in DOMAIN d.v[sec].v \ MergedFields :
                             m.v[sec].v[fld] = d.v[sec].v[fld]
                  ELSE m.v[sec] = d.v[sec]

\* a merge that appended to base.packages from a custom file that also sets
\* image_name, image_tag, extra and foo
C7_Witness ==
    /\ MergeReturned
    /\ fs0[PACKAGES_CUSTOM].st = "doc"
    /\ fs0[PACKAGES_CUSTOM].doc.k = "map"
    /\ {"image_name", "image_tag", "extra", "foo"} \subseteq DOMAIN fs0[PACKAGES_CUSTOM].doc.v
    /\ SeqAt(DocOf(fs0[PACKAGES_CUSTOM]), "base", "packages") # <<>>
    /\ fs[PACKAGES_MERGED].doc.v["image_name"] = Str("ubuntu")
    /\ fs[PACKAGES_MERGED].doc.v["base"].v["extra"] = Str("keep")

----------------------------------------------------------------------------
(* Properties of the validators *)

\* C5: every validator, on any top-level mapping, returns pass or fail and
\* never raises.
C5_ValidatorsNeverRaise ==
    pc = "returned" => ret.res \in {"pass", "fail"}

\* C8: validate_compose passes only a document whose services.devcontainer is
\* present and is a mapping.
C8_ComposeNeedsMapping ==
    (pc = "returned" /\ calls = {"compose"} /\ ret.res = "pass") =>
        WellFormedCompose(Doc(arg))

----------------------------------------------------------------------------
(* Properties of generate_env *)

\* the .env file holds this line
EnvHas(line) ==
    /\ fs[ENV_FILE].st = "text"
    /\ \E i \in 1..Len(fs[ENV_FILE].doc.v) : fs[ENV_FILE].doc.v[i] = Str(line)

\* the user name the identifiers are built on
UserName ==
    IF "USER" \in DOMAIN environ THEN environ["USER"]
    ELSE IF "USERNAME" \in DOMAIN environ THEN environ["USERNAME"]
    ELSE "developer"

\* each identifier key with the fixed text that follows the user name
Templates ==
    {<<"SERVICE_PREPARE", "-devcontainer-prepare">>,
     <<"SERVICE_MAIN", "-devcontainer">>,
     <<"VOLUME_LOCAL_SHARE", "-devcontainer-local-share">>,
     <<"VOLUME_CONFIG", "-devcontainer-config">>,
     <<"VOLUME_CACHE", "-devcontainer-cache">>,
     <<"VOLUME_VSCODE_EXT", "-vscode-extensions">>,
     <<"VOLUME_VSCODE_EXT_INSIDERS", "-vscode-extensions-insiders">>}

\* C9: every service and volume identifier is its template on the user name,
\* with nothing appended for an empty suffix (no trailing hyphen) and with
\* "-" and the suffix appended otherwise.
C9_SuffixTemplate ==
    pc = "returned" =>
        \A t \in Templates :
            LET stem == t[1] \o "=" \o UserName \o t[2]
            IN  IF suffix = ""
                THEN EnvHas(stem) /\ ~EnvHas(stem \o "-")
                ELSE EnvHas(stem \o "-" \o suffix) /\ ~EnvHas(stem)
                     /\ ~EnvHas(stem \o suffix)

\* alice with the suffix dev
C9_Witness ==
    /\ pc = "returned"
    /\ suffix = "dev"
    /\ EnvHas("USER=alice")
    /\ EnvHas("SERVICE_PREPARE=alice-devcontainer-prepare-dev")
    /\ EnvHas("SERVICE_MAIN=alice-devcontainer-dev")

\* the value of a field of packages.yml as the file itself shows it, or the
\* fixed default when the file gives none
ImageField(f, field, dflt) ==
    IF f.st = "doc" /\ f.doc.k = "map" /\ field \in DOMAIN f.doc.v
    THEN PyFormat(f.doc.v[field])
    ELSE dflt

\* C10: whatever packages.yml is (missing, unparsable, not a mapping, without
\* image_name or image_tag), generate_env writes the env file; IMAGE_NAME and
\* IMAGE_TAG are the document's values, each replaced by ubuntu or 24.04 when
\* the document does not give it.
C10_ImageFallback ==
    pc = "returned" =>
        /\ fs[ENV_FILE].st = "text"
        /\ EnvHas("IMAGE_NAME=" \o ImageField(fs0[PACKAGES_MERGED], "image_name", "ubuntu"))
        /\ EnvHas("IMAGE_TAG=" \o ImageField(fs0[PACKAGES_MERGED], "image_tag", "24.04"))
        /\ fs[PACKAGES_MERGED] = fs0[PACKAGES_MERGED]

\* packages.yml gives a name but no tag: the name is kept, the tag defaulted
C10_Witness ==
    /\ pc = "returned"
    /\ fs0[PACKAGES_MERGED].st = "doc"
    /\ fs0[PACKAGES_MERGED].doc.k = "map"
    /\ "image_tag" \notin DOMAIN fs0[PACKAGES_MERGED].doc.v
    /\ EnvHas("IMAGE_NAME=debian")
    /\ EnvHas("IMAGE_TAG=24.04")

====
